---- MODULE Spec2Model ----
(***************************************************************************)
(* Model of aicodeprep-go.  The file-selection engine                     *)
(* (internal/selector/selector.go): FileSelector.SelectFiles with          *)
(* expandGlob, expandRecursiveGlob, isExcluded and matchesRecursiveExclude.*)
(* The run of the command (cmd/aicodeprep-go/main.go): runCommand with     *)
(* config.LoadConfig and Config.Merge, runBatchMode, runInteractiveMode,   *)
(* formatter.ValidateFiles, PromptFormatter.Format and                     *)
(* clipboard.WriteToOutput.                                                *)
(* Strings are sequences of one-character strings; the file system is a    *)
(* set of entries below the working directory Cwd.  The library functions  *)
(* the selector calls (filepath.Match, Glob, WalkDir, Base, Abs, Rel and   *)
(* the strings helpers) are modelled by what they compute.                 *)
(***************************************************************************)
EXTENDS Integers, Sequences, FiniteSets, TLC

VARIABLES
    fsys,            \* the file system below the working directory
    fsPatterns,      \* FileSelector.patterns
    fsExcludes,      \* FileSelector.excludes
    fsMaxFileSize,   \* FileSelector.maxFileSize
    patterns,        \* SelectFiles: the patterns ranged over
    files,           \* SelectFiles: the result built so far
    processedFiles,  \* SelectFiles: the set of paths already seen
    pi,              \* SelectFiles: number of patterns expanded
    matches,         \* SelectFiles: the matches of the current pattern
    mi,              \* SelectFiles: number of matches handled
    err,             \* SelectFiles: the error returned
    pc,              \* position in SelectFiles, or in a call of isExcluded
    candidate,       \* isExcluded: the path argument
    excluded,        \* isExcluded: the value returned
    args,            \* main.go: the flag variables as the command line set them
    maxSize,         \* main.go: the variable maxSize
    configFiles,     \* the configuration files on disk, by path
    cfg,             \* runCommand: cfg
    selectedFiles,   \* runBatchMode, runInteractiveMode: selectedFiles
    validFiles,      \* runBatchMode: validFiles; runInteractiveMode: finalFiles
    formattedPrompt, \* generateOutput: formattedPrompt
    contents,        \* what reading each regular file yields, once read
    unreadable,      \* the files that can no longer be opened
    env,             \* the platform: GOOS, the utilities on PATH, what fails
    clipboard,       \* what the clipboard utilities were given
    written,         \* the files written by writeToFile
    exit             \* the error runCommand or WriteToOutput returns

\* the state of the selector
selVars == <<fsys, fsPatterns, fsExcludes, fsMaxFileSize, patterns, files,
             processedFiles, pi, matches, mi, err, pc, candidate, excluded>>

\* the state of a run of the command
runVars == <<args, maxSize, configFiles, cfg, selectedFiles, validFiles,
             formattedPrompt, contents, unreadable, env, clipboard, written, exit>>

vars == <<selVars, runVars>>

\* no command is running
RunIdle ==
    /\ args = <<>>
    /\ maxSize = 0
    /\ configFiles = <<>>
    /\ cfg = <<>>
    /\ selectedFiles = <<>>
    /\ validFiles = <<>>
    /\ formattedPrompt = <<>>
    /\ contents = <<>>
    /\ unreadable = {}
    /\ env = <<>>
    /\ clipboard = {}
    /\ written = {}
    /\ exit = <<>>

(***************************************************************************)
(* Strings                                                                 *)
(***************************************************************************)

\* a string literal as a sequence of characters
Str(s) == [i \in 1..Len(s) |-> SubSeq(s, i, i)]

\* the characters of the model in byte order; Ord is the position
Alphabet == Str("*,-./?[\\]^_abcdefghijklmnopqrstuvwxyz{}")

Ord(c) == CHOOSE i \in 1..Len(Alphabet) : Alphabet[i] = c

Separator == "/"

Drop(s, n) == SubSeq(s, n + 1, Len(s))

Take(s, n) == SubSeq(s, 1, n)

\* strings.HasPrefix
HasPrefix(s, p) == Len(p) <= Len(s) /\ Take(s, Len(p)) = p

\* strings.HasSuffix
HasSuffix(s, p) == Len(p) <= Len(s) /\ Drop(s, Len(s) - Len(p)) = p

\* strings.Index: the first position (from 1) at which sub starts in s, 0 when absent
Index(s, sub) ==
    LET hits == {i \in 1..(Len(s) - Len(sub) + 1) : SubSeq(s, i, i + Len(sub) - 1) = sub}
    IN IF hits = {} THEN 0 ELSE CHOOSE i \in hits : \A j \in hits : i <= j

\* strings.Contains
Contains(s, sub) == Index(s, sub) > 0

\* strings.TrimSuffix
TrimSuffix(s, p) == IF HasSuffix(s, p) THEN Take(s, Len(s) - Len(p)) ELSE s

\* strings.TrimPrefix
TrimPrefix(s, p) == IF HasPrefix(s, p) THEN Drop(s, Len(p)) ELSE s

\* strings.SplitN(s, sep, 2): one part when sep is absent, else the text before
\* and the text after the first sep
SplitN2(s, sep) ==
    LET i == Index(s, sep)
    IN IF i = 0 THEN <<s>> ELSE <<Take(s, i - 1), Drop(s, i + Len(sep) - 1)>>

\* position of the last separator of s, 0 when there is none
LastSep(s) ==
    LET hits == {i \in 1..Len(s) : s[i] = Separator}
    IN IF hits = {} THEN 0 ELSE CHOOSE i \in hits : \A j \in hits : j <= i

RECURSIVE StripTrailingSeps(_)
StripTrailingSeps(s) ==
    IF Len(s) > 0 /\ s[Len(s)] = Separator
    THEN StripTrailingSeps(Take(s, Len(s) - 1))
    ELSE s

\* filepath.Base
Base(path) ==
    IF path = <<>> THEN Str(".")
    ELSE LET p == StripTrailingSeps(path)
         IN IF p = <<>> THEN Str("/") ELSE Drop(p, LastSep(p))

\* byte-wise order of two strings (sort.Strings)
RECURSIVE StrLess(_, _)
StrLess(a, b) ==
    IF b = <<>> THEN FALSE
    ELSE IF a = <<>> THEN TRUE
    ELSE IF a[1] # b[1] THEN Ord(a[1]) < Ord(b[1])
    ELSE StrLess(Tail(a), Tail(b))

(***************************************************************************)
(* filepath.Match (path/filepath of the Go standard library, Unix build),  *)
(* called by expandRecursiveGlob, isExcluded and matchesRecursiveExclude   *)
(* and, through filepath.Glob, by expandGlob.                              *)
(***************************************************************************)

\* the rune a failed chunk match compares a character class with
NUL == ""

\* getEsc: one, possibly escaped, character of a character class
getEsc(chunk) ==
    IF chunk = <<>> \/ chunk[1] = "-" \/ chunk[1] = "]"
    THEN [r |-> NUL, nchunk |-> chunk, err |-> TRUE]
    ELSE LET c1 == IF chunk[1] = "\\" THEN Tail(chunk) ELSE chunk
         IN IF c1 = <<>>
            THEN [r |-> NUL, nchunk |-> c1, err |-> TRUE]
            ELSE [r |-> c1[1], nchunk |-> Tail(c1), err |-> Tail(c1) = <<>>]

RECURSIVE ParseRanges(_, _, _, _)

\* one range lo or lo-hi of a character class, then the ranges after it
ParseRange(lo, hi, r, match, nrange) ==
    IF lo.err \/ hi.err
    THEN [chunk |-> <<>>, match |-> FALSE, err |-> TRUE]
    ELSE ParseRanges(hi.nchunk, r,
                     match \/ (r # NUL /\ Ord(lo.r) <= Ord(r) /\ Ord(r) <= Ord(hi.r)),
                     nrange + 1)

\* the upper end of the range that starts with lo
RangeEnd(lo) ==
    IF lo.err THEN lo
    ELSE IF lo.nchunk[1] = "-" THEN getEsc(Tail(lo.nchunk))
    ELSE lo

RangeFrom(lo, r, match, nrange) == ParseRange(lo, RangeEnd(lo), r, match, nrange)

\* the range loop of matchChunk's character class: r is the rune of the name
ParseRanges(chunk, r, match, nrange) ==
    IF Len(chunk) > 0 /\ chunk[1] = "]" /\ nrange > 0
    THEN [chunk |-> Tail(chunk), match |-> match, err |-> FALSE]
    ELSE RangeFrom(getEsc(chunk), r, match, nrange)

RECURSIVE matchChunkLoop(_, _, _)

\* matchChunk after a character class was parsed
AfterClass(pr, s1, failed, negated) ==
    IF pr.err THEN [rest |-> <<>>, ok |-> FALSE, err |-> TRUE]
    ELSE matchChunkLoop(pr.chunk, s1, failed \/ pr.match = negated)

\* matchChunk at a character class, c1 the chunk after its opening bracket
AtClass(c1, s, s1, failed) ==
    AfterClass(ParseRanges(IF Len(c1) > 0 /\ c1[1] = "^" THEN Tail(c1) ELSE c1,
                           IF failed THEN NUL ELSE s[1], FALSE, 0),
               s1, failed, Len(c1) > 0 /\ c1[1] = "^")

\* one round of the loop of matchChunk, failed set when the name is used up
ChunkStep(chunk, s, s1, failed) ==
    CASE chunk[1] = "[" -> AtClass(Tail(chunk), s, s1, failed)
      [] chunk[1] = "?" ->
           matchChunkLoop(Tail(chunk), s1, failed \/ s[1] = Separator)
      [] chunk[1] = "\\" ->
           IF Len(chunk) = 1 THEN [rest |-> <<>>, ok |-> FALSE, err |-> TRUE]
           ELSE matchChunkLoop(Drop(chunk, 2), s1, failed \/ chunk[2] # s[1])
      [] OTHER ->
           matchChunkLoop(Tail(chunk), s1, failed \/ chunk[1] # s[1])

\* matchChunk: after the match has failed the chunk is still read to its end,
\* to report a malformed pattern
matchChunkLoop(chunk, s, wasFailed) ==
    IF chunk = <<>>
    THEN IF wasFailed THEN [rest |-> <<>>, ok |-> FALSE, err |-> FALSE]
                      ELSE [rest |-> s, ok |-> TRUE, err |-> FALSE]
    ELSE ChunkStep(chunk, s,
                   IF wasFailed \/ s = <<>> THEN s ELSE Tail(s),
                   wasFailed \/ s = <<>>)

matchChunk(chunk, s) == matchChunkLoop(chunk, s, FALSE)

\* the scan loop of scanChunk: the number of characters of the chunk
RECURSIVE ScanEnd(_, _, _)
ScanEnd(p, i, inrange) ==
    IF i >= Len(p) THEN i
    ELSE CASE p[i + 1] = "\\" -> ScanEnd(p, IF i + 1 < Len(p) THEN i + 2 ELSE i + 1, inrange)
           [] p[i + 1] = "[" -> ScanEnd(p, i + 1, TRUE)
           [] p[i + 1] = "]" -> ScanEnd(p, i + 1, FALSE)
           [] p[i + 1] = "*" -> IF inrange THEN ScanEnd(p, i + 1, inrange) ELSE i
           [] OTHER -> ScanEnd(p, i + 1, inrange)

RECURSIVE StripStars(_)
StripStars(p) == IF Len(p) > 0 /\ p[1] = "*" THEN StripStars(Tail(p)) ELSE p

\* scanChunk: the leading stars, the chunk up to the next star, and the rest
ChunkOf(pattern, p, i) ==
    [star |-> p # pattern, chunk |-> Take(p, i), rest |-> Drop(p, i)]

ChunkFrom(pattern, p) == ChunkOf(pattern, p, ScanEnd(p, 0, FALSE))

scanChunk(pattern) == ChunkFrom(pattern, StripStars(pattern))

RECURSIVE CheckRest(_)

CheckChunk(sc) ==
    IF matchChunk(sc.chunk, <<>>).err
    THEN [matched |-> FALSE, err |-> TRUE]
    ELSE CheckRest(sc.rest)

\* the last loop of Match: the rest of the pattern is checked for its syntax
CheckRest(pattern) ==
    IF pattern = <<>> THEN [matched |-> FALSE, err |-> FALSE]
    ELSE CheckChunk(scanChunk(pattern))

RECURSIVE Match(_, _)
RECURSIVE StarSkip(_, _, _, _)

\* one round of the star loop, mc the chunk matched i+1 characters on
StarTry(chunk, rest, name, i, mc) ==
    IF mc.ok
    THEN IF Len(rest) = 0 /\ Len(mc.rest) > 0
         THEN StarSkip(chunk, rest, name, i + 1)
         ELSE Match(rest, mc.rest)
    ELSE IF mc.err THEN [matched |-> FALSE, err |-> TRUE]
    ELSE StarSkip(chunk, rest, name, i + 1)

\* the loop of Match that lets a star skip i+1 characters of the name
StarSkip(chunk, rest, name, i) ==
    IF i < Len(name) /\ name[i + 1] # Separator
    THEN StarTry(chunk, rest, name, i, matchChunk(chunk, Drop(name, i + 1)))
    ELSE CheckRest(rest)

\* one round of the loop of Match, mc the chunk matched at the current position
MatchTry(sc, name, mc) ==
    IF mc.ok /\ (Len(mc.rest) = 0 \/ Len(sc.rest) > 0)
    THEN Match(sc.rest, mc.rest)
    ELSE IF mc.err THEN [matched |-> FALSE, err |-> TRUE]
    ELSE IF sc.star THEN StarSkip(sc.chunk, sc.rest, name, 0)
    ELSE CheckRest(sc.rest)

MatchStep(sc, name) ==
    IF sc.star /\ sc.chunk = <<>>
    THEN [matched |-> ~Contains(name, <<Separator>>), err |-> FALSE]
    ELSE MatchTry(sc, name, matchChunk(sc.chunk, name))

\* filepath.Match(pattern, name): matched, and err for a malformed pattern
Match(pattern, name) ==
    IF pattern = <<>> THEN [matched |-> name = <<>>, err |-> FALSE]
    ELSE MatchStep(scanChunk(pattern), name)

\* a match without an error
Matched(m) == ~m.err /\ m.matched

(***************************************************************************)
(* The file system and the library functions that read it                  *)
(***************************************************************************)

\* the working directory of the process
Cwd == Str("/w")

Entry(p, k, n) == [path |-> Str(p), kind |-> k, size |-> n]

DirKinds == {"dir", "dir_noread"}

\* filepath.Join(dir, name) for a clean dir
Join(dir, name) == IF dir = Str(".") THEN name ELSE dir \o <<Separator>> \o name

\* a path as the file system stores it: relative to the working directory
Resolve(p) ==
    IF p = Cwd THEN Str(".")
    ELSE IF HasPrefix(p, Cwd \o <<Separator>>) THEN Drop(p, Len(Cwd) + 1)
    ELSE p

\* os.Lstat: the entry itself, a symbolic link not followed
EntryInfo(hit) ==
    IF hit = {} THEN [ok |-> FALSE, kind |-> "none", size |-> 0]
    ELSE [ok |-> TRUE,
          kind |-> (CHOOSE e \in hit : TRUE).kind,
          size |-> (CHOOSE e \in hit : TRUE).size]

LstatAt(fs, q) ==
    IF q = Str(".") THEN [ok |-> TRUE, kind |-> "dir", size |-> 0]
    ELSE EntryInfo({e \in fs : e.path = q})

Lstat(fs, p) == LstatAt(fs, Resolve(p))

\* os.Stat: symbolic links followed; a dangling link cannot be stat-ed
Followed(l) ==
    IF ~l.ok \/ l.kind = "link_broken"
    THEN [ok |-> FALSE, isDir |-> FALSE, isRegular |-> FALSE, size |-> 0]
    ELSE [ok |-> TRUE,
          isDir |-> l.kind \in DirKinds \/ l.kind = "link_dir",
          isRegular |-> l.kind = "file",
          size |-> l.size]

Stat(fs, p) == Followed(Lstat(fs, p))

\* the names in directory dir (nothing can be read of an unreadable directory)
Below(fs, d) ==
    IF d = Str(".") THEN {e.path : e \in fs}
    ELSE {Drop(e.path, Len(d) + 1) :
            e \in {x \in fs : HasPrefix(x.path, d \o <<Separator>>)}}

Names(fs, dir) ==
    IF Lstat(fs, dir).kind # "dir" THEN {}
    ELSE {n \in Below(fs, Resolve(dir)) : ~Contains(n, <<Separator>>)}

\* sort.Strings of a set of names
RECURSIVE SortedSeq(_)
SortedSeq(S) ==
    IF S = {} THEN <<>>
    ELSE LET m == CHOOSE x \in S : \A y \in S \ {x} : StrLess(x, y)
         IN <<m>> \o SortedSeq(S \ {m})

\* filepath.Abs of a clean path
Abs(p) ==
    IF HasPrefix(p, <<Separator>>) THEN p
    ELSE IF p = Str(".") THEN Cwd
    ELSE Cwd \o <<Separator>> \o p

\* filepath.Rel(base, targ) for a target at or below base
Rel(base, targ) ==
    IF base = Str(".") \/ base = <<>> THEN [rel |-> targ, err |-> FALSE]
    ELSE IF targ = base THEN [rel |-> Str("."), err |-> FALSE]
    ELSE IF HasPrefix(targ, base \o <<Separator>>)
         THEN [rel |-> Drop(targ, Len(base) + 1), err |-> FALSE]
    ELSE [rel |-> <<>>, err |-> TRUE]

\* filepath.WalkDir with a function that always returns nil: the calls of the
\* function in order, each with its path, d.IsDir() and whether err is set
RECURSIVE walkDir(_, _)
RECURSIVE walkNames(_, _, _)

walkNames(fs, dir, names) ==
    IF names = <<>> THEN <<>>
    ELSE walkDir(fs, Join(dir, Head(names))) \o walkNames(fs, dir, Tail(names))

walkKind(fs, path, k) ==
    <<[path |-> path, isDir |-> k \in DirKinds, err |-> FALSE]>>
    \o (IF k = "dir" THEN walkNames(fs, path, SortedSeq(Names(fs, path)))
        ELSE IF k = "dir_noread"
             THEN <<[path |-> path, isDir |-> TRUE, err |-> TRUE]>>
        ELSE <<>>)

walkDir(fs, path) == walkKind(fs, path, Lstat(fs, path).kind)

WalkDir(fs, root) ==
    IF ~Lstat(fs, root).ok
    THEN <<[path |-> root, isDir |-> FALSE, err |-> TRUE]>>
    ELSE walkDir(fs, root)

\* hasMeta of path/filepath
hasMeta(path) == \E i \in 1..Len(path) : path[i] \in {"*", "?", "[", "\\"}

\* cleanGlobPath of path/filepath
cleanGlobPath(dir) ==
    IF dir = <<>> THEN Str(".")
    ELSE IF dir = <<Separator>> THEN dir
    ELSE Take(dir, Len(dir) - 1)

\* glob of path/filepath: the names of dir that match pattern, joined to dir
RECURSIVE globNames(_, _, _)
globNames(dir, pattern, names) ==
    IF names = <<>> THEN <<>>
    ELSE (IF Match(pattern, Head(names)).matched THEN <<Join(dir, Head(names))>> ELSE <<>>)
         \o globNames(dir, pattern, Tail(names))

glob(fs, dir, pattern) ==
    IF ~Stat(fs, dir).isDir THEN <<>>
    ELSE globNames(dir, pattern, SortedSeq(Names(fs, dir)))

RECURSIVE globDirs(_, _, _)
globDirs(fs, dirs, file) ==
    IF dirs = <<>> THEN <<>>
    ELSE glob(fs, Head(dirs), file) \o globDirs(fs, Tail(dirs), file)

RECURSIVE Glob(_, _)

globIn(fs, m, file) ==
    IF m.err THEN m
    ELSE [matches |-> globDirs(fs, m.matches, file), err |-> FALSE]

globSplit(fs, pattern, dir, file) ==
    IF ~hasMeta(dir) THEN [matches |-> glob(fs, dir, file), err |-> FALSE]
    ELSE IF dir = pattern THEN [matches |-> <<>>, err |-> TRUE]
    ELSE globIn(fs, Glob(fs, dir), file)

globAt(fs, pattern, cut) ==
    globSplit(fs, pattern, cleanGlobPath(Take(pattern, cut)), Drop(pattern, cut))

\* filepath.Glob: the only error is a malformed pattern, found before any
\* directory is read
Glob(fs, pattern) ==
    IF Match(pattern, <<>>).err THEN [matches |-> <<>>, err |-> TRUE]
    ELSE IF ~hasMeta(pattern)
         THEN [matches |-> IF Lstat(fs, pattern).ok THEN <<pattern>> ELSE <<>>,
               err |-> FALSE]
    ELSE globAt(fs, pattern, LastSep(pattern))

(***************************************************************************)
(* internal/selector/selector.go                                           *)
(***************************************************************************)

DoubleStar == Str("**")

\* the function expandRecursiveGlob hands to WalkDir: the matches one call appends
\* the file name is not tried
RelOnly(m, b) == Matched(m)

\* the suffix tests of that function: m the match of the relative path, b the
\* match of the file name
RelOrBase(m, b) ==
    IF m.err THEN FALSE
    ELSE IF m.matched THEN TRUE
    ELSE ~b.err /\ b.matched

SuffixMatches(suffix, r, path) ==
    IF r.err THEN FALSE
    ELSE RelOrBase(Match(suffix, r.rel), Match(suffix, Base(path)))

WalkFn(prefix, suffix, v) ==
    IF v.err THEN <<>>
    ELSE IF v.isDir THEN <<>>
    ELSE IF suffix = <<>> THEN <<Abs(v.path)>>
    ELSE IF SuffixMatches(suffix, Rel(prefix, v.path), v.path) THEN <<Abs(v.path)>>
    ELSE <<>>

RECURSIVE WalkAll(_, _, _)
WalkAll(prefix, suffix, visits) ==
    IF visits = <<>> THEN <<>>
    ELSE WalkFn(prefix, suffix, Head(visits)) \o WalkAll(prefix, suffix, Tail(visits))

\* FileSelector.expandRecursiveGlob; WalkDir returns what the function returns, nil
\* the walk function returns the error of filepath.Match
walkFromStrict(fs, prefix, suffix) ==
    [matches |-> WalkAll(prefix, suffix, WalkDir(fs, prefix)),
     err |-> Match(suffix, <<>>).err]

\* expandRecursiveGlob: the walk from prefix
walkFrom(fs, prefix, suffix) ==
    [matches |-> WalkAll(prefix, suffix, WalkDir(fs, prefix)), err |-> FALSE]

walkParts(fs, prefix, suffix) ==
    walkFrom(fs, IF prefix = <<>> THEN Str(".") ELSE prefix, suffix)

expandParts(fs, pattern, parts) ==
    IF Len(parts) # 2 THEN Glob(fs, pattern)
    ELSE walkParts(fs, TrimSuffix(parts[1], <<Separator>>),
                       TrimPrefix(parts[2], <<Separator>>))

expandRecursiveGlob(fs, pattern) ==
    expandParts(fs, pattern, SplitN2(pattern, DoubleStar))

\* FileSelector.expandGlob
\* a malformed pattern yields no matches and no error
absAllNoError(g) ==
    [matches |-> [i \in 1..Len(g.matches) |-> Abs(g.matches[i])], err |-> FALSE]

\* expandGlob after filepath.Glob: the error returned, or the absolute paths
absAll(g) ==
    IF g.err THEN [matches |-> <<>>, err |-> TRUE]
    ELSE [matches |-> [i \in 1..Len(g.matches) |-> Abs(g.matches[i])],
          err |-> FALSE]

expandGlob(fs, pattern) ==
    IF Contains(pattern, DoubleStar) THEN expandRecursiveGlob(fs, pattern)
    ELSE absAll(Glob(fs, pattern))

\* FileSelector.matchesRecursiveExclude
\* the prefix must be a whole directory name of the path
excludePartsSegment(path, prefix, suffix) ==
    IF prefix # <<>> /\ ~Contains(path, <<Separator>> \o prefix \o <<Separator>>) THEN FALSE
    ELSE IF suffix # <<>> THEN Match(suffix, Base(path)).matched
    ELSE TRUE

\* matchesRecursiveExclude: the prefix and the suffix tests
excludeParts(path, prefix, suffix) ==
    IF prefix # <<>> /\ ~Contains(path, prefix) THEN FALSE
    ELSE IF suffix # <<>> THEN Match(suffix, Base(path)).matched
    ELSE prefix = <<>> \/ Contains(path, prefix)

excludeSplit(path, pattern, parts) ==
    IF Len(parts) # 2 THEN Match(pattern, path).matched
    ELSE excludeParts(path, TrimSuffix(parts[1], <<Separator>>),
                            TrimPrefix(parts[2], <<Separator>>))

matchesRecursiveExclude(path, pattern) ==
    excludeSplit(path, pattern, SplitN2(pattern, DoubleStar))

\* the body of the loop of isExcluded: whether one exclude pattern matches
excludeMatches(exclude, path) ==
    IF Contains(exclude, DoubleStar) THEN matchesRecursiveExclude(path, exclude)
    ELSE Matched(Match(exclude, Base(path))) \/ Matched(Match(exclude, path))

\* only the first exclude pattern is tried
isExcludedFirstOnly(excl, path) ==
    excl # <<>> /\ excludeMatches(Head(excl), path)

\* FileSelector.isExcluded
RECURSIVE isExcluded(_, _)
isExcluded(excl, path) ==
    IF excl = <<>> THEN FALSE
    ELSE IF excludeMatches(Head(excl), path) THEN TRUE
    ELSE isExcluded(Tail(excl), path)

\* the set of seen paths never grows
MarkProcessedNever(seen, match) == seen

\* SelectFiles: processedFiles[match] = true
MarkProcessed(seen, match) == seen \cup {match}

\* everything but a directory counts as a regular file
IsRegularNotDir(info) == ~info.isDir

\* SelectFiles: info.Mode().IsRegular()
IsRegular(info) == info.isRegular

\* a file of exactly the limit is dropped too
TooLargeOrEqual(max, size) == max > 0 /\ size >= max

\* no size is too large
TooLargeNever(max, size) == FALSE

\* SelectFiles: the size check
TooLarge(max, size) == max > 0 /\ size > max

\* an empty pattern list stands for every file below the current directory
DefaultPatternsRecursive(given) == IF Len(given) = 0 THEN <<DoubleStar>> ELSE given

\* SelectFiles: an empty pattern list stands for the current directory
DefaultPatterns(given) == IF Len(given) = 0 THEN <<Str("*")>> ELSE given

(***************************************************************************)
(* FileSelector.SelectFiles as one call                                    *)
(***************************************************************************)

\* the end of the body of the inner loop: os.Stat, IsRegular and the size check
selectStat(sel, max, m, info) ==
    IF info.ok /\ IsRegular(info) /\ ~TooLarge(max, info.size)
    THEN [sel EXCEPT !.files = Append(@, [Path |-> m, Size |-> info.size])]
    ELSE sel

\* the body of the inner loop on the match m
selectMatch(sel, fs, excl, max, m) ==
    IF m \in sel.seen THEN sel
    ELSE IF isExcluded(excl, m) THEN [sel EXCEPT !.seen = MarkProcessed(@, m)]
    ELSE selectStat([sel EXCEPT !.seen = MarkProcessed(@, m)], max, m, Stat(fs, m))

\* the inner loop
RECURSIVE selectMatches(_, _, _, _, _)
selectMatches(sel, fs, excl, max, ms) ==
    IF ms = <<>> THEN sel
    ELSE selectMatches(selectMatch(sel, fs, excl, max, Head(ms)), fs, excl, max, Tail(ms))

\* the loop over the patterns; an error of expandGlob ends it with no files
RECURSIVE selectPatterns(_, _, _, _, _)

selectExpanded(sel, fs, excl, max, ps, r) ==
    IF r.err THEN [files |-> <<>>, seen |-> sel.seen, err |-> TRUE]
    ELSE selectPatterns(selectMatches(sel, fs, excl, max, r.matches), fs, excl, max, Tail(ps))

selectPatterns(sel, fs, excl, max, ps) ==
    IF ps = <<>> THEN sel
    ELSE selectExpanded(sel, fs, excl, max, ps, expandGlob(fs, Head(ps)))

\* selector.New(pats, excl, max).SelectFiles() on the file system fs
SelectFiles(fs, pats, excl, max) ==
    selectPatterns([files |-> <<>>, seen |-> {}, err |-> FALSE],
                   fs, excl, max, DefaultPatterns(pats))

(***************************************************************************)
(* config: DefaultConfig, LoadConfig, Merge; main.getConfigPath            *)
(***************************************************************************)

DefaultMaxFileSize == 1048576

DefaultConfig ==
    [Files |-> <<>>,
     Exclude |-> <<Str("vendor/**"), Str("node_modules/**"), Str(".git/**")>>,
     Prompt |-> "",
     MaxFileSize |-> DefaultMaxFileSize,
     Output |-> ""]

\* yaml.Unmarshal(data, config): each key of the document replaces its field,
\* a field without a key keeps its value
Unmarshal(doc, c) ==
    [Files |-> IF "files" \in DOMAIN doc THEN doc.files ELSE c.Files,
     Exclude |-> IF "exclude" \in DOMAIN doc THEN doc.exclude ELSE c.Exclude,
     Prompt |-> IF "prompt" \in DOMAIN doc THEN doc.prompt ELSE c.Prompt,
     MaxFileSize |-> IF "max_file_size" \in DOMAIN doc THEN doc.max_file_size
                     ELSE c.MaxFileSize,
     Output |-> IF "output" \in DOMAIN doc THEN doc.output ELSE c.Output]

\* a missing file is an error like any other
loadFromStrict(f) ==
    IF f.state = "yaml" THEN [err |-> "", config |-> Unmarshal(f.doc, DefaultConfig)]
    ELSE [err |-> "failed to open config file", config |-> <<>>]

\* LoadConfig on the file f: os.Open, io.ReadAll, yaml.Unmarshal
loadFrom(f) ==
    IF f.state = "missing" THEN [err |-> "", config |-> DefaultConfig]
    ELSE IF f.state = "denied"
         THEN [err |-> "failed to open config file", config |-> <<>>]
    ELSE IF f.state = "unreadable"
         THEN [err |-> "failed to read config file", config |-> <<>>]
    ELSE IF f.state = "malformed"
         THEN [err |-> "failed to parse config file", config |-> <<>>]
    ELSE [err |-> "", config |-> Unmarshal(f.doc, DefaultConfig)]

LoadConfig(disk, path) == loadFrom(disk[path])

\* a negative size is taken over too
MergeAnySize(c, fl, exclude, prompt, output, maxFileSize) ==
    [Files |-> IF Len(fl) > 0 THEN c.Files \o fl ELSE c.Files,
     Exclude |-> IF Len(exclude) > 0 THEN c.Exclude \o exclude ELSE c.Exclude,
     Prompt |-> IF prompt # "" THEN prompt ELSE c.Prompt,
     MaxFileSize |-> IF maxFileSize # 0 THEN maxFileSize ELSE c.MaxFileSize,
     Output |-> IF output # "" THEN output ELSE c.Output]

\* Config.Merge
Merge(c, fl, exclude, prompt, output, maxFileSize) ==
    [Files |-> IF Len(fl) > 0 THEN c.Files \o fl ELSE c.Files,
     Exclude |-> IF Len(exclude) > 0 THEN c.Exclude \o exclude ELSE c.Exclude,
     Prompt |-> IF prompt # "" THEN prompt ELSE c.Prompt,
     MaxFileSize |-> IF maxFileSize > 0 THEN maxFileSize ELSE c.MaxFileSize,
     Output |-> IF output # "" THEN output ELSE c.Output]

\* os.Getenv("HOME")
Home == Str("/home/u")

\* getConfigPath: the candidates in the order they are tried
Candidates ==
    <<Str(".aicodeprep.yaml"),
      Str(".aicodeprep.yml"),
      Join(Home, Str(".config/aicodeprep/config.yaml")),
      Join(Home, Str(".aicodeprep.yaml"))>>

RECURSIVE firstExisting(_, _)
firstExisting(disk, cands) ==
    IF cands = <<>> THEN <<>>
    ELSE IF disk[Head(cands)].state # "missing" THEN Head(cands)
    ELSE firstExisting(disk, Tail(cands))

\* main.getConfigPath (no caller)
getConfigPath(disk, configPath) ==
    IF configPath # <<>> THEN configPath ELSE firstExisting(disk, Candidates)

(***************************************************************************)
(* formatter: ValidateFiles, Format, GetRelativePath                       *)
(***************************************************************************)

\* os.Open(path) succeeds
CanOpen(unread, path) == path \notin unread

\* ValidateFiles: the files that are regular and can be opened
ValidateFiles(fs, unread, fl) ==
    LET valid(file) == /\ Stat(fs, file.Path).ok
                       /\ IsRegular(Stat(fs, file.Path))
                       /\ CanOpen(unread, file.Path)
    IN SelectSeq(fl, valid)

\* readFileContent: os.Open, the lines of the file, utf8.ValidString
readFileContent(cont, unread, path) ==
    IF ~CanOpen(unread, path) THEN [err |-> "failed to open file", content |-> ""]
    ELSE IF cont[path] = "binary"
         THEN [err |-> "file contains invalid UTF-8 encoding", content |-> ""]
    ELSE [err |-> "", content |-> cont[path]]

\* strings.TrimSpace(content) == ""
TrimsToEmpty(content) == content \in {"", "blank"}

\* Format: a file is written unless reading failed or its content is blank
keepSection(r) == r.err = "" /\ ~TrimsToEmpty(r.content)

relOrPath(path, r) ==
    IF ~r.err /\ Len(r.rel) < Len(path) /\ ~HasPrefix(r.rel, Str("../.."))
    THEN r.rel ELSE path

\* GetRelativePath
GetRelativePath(path) == relOrPath(path, Rel(Cwd, path))

\* Format: the sections of the files, in order
RECURSIVE sections(_, _, _)

sectionOf(cont, unread, fl, r) ==
    IF keepSection(r)
    THEN <<[path |-> GetRelativePath(Head(fl).Path), content |-> r.content]>>
         \o sections(cont, unread, Tail(fl))
    ELSE sections(cont, unread, Tail(fl))

sections(cont, unread, fl) ==
    IF fl = <<>> THEN <<>>
    ELSE sectionOf(cont, unread, fl, readFileContent(cont, unread, Head(fl).Path))

\* PromptFormatter.Format: the request, the sections, the request again;
\* the error returned is always nil
Format(prompt, fl, cont, unread) ==
    [head |-> IF prompt # "" THEN prompt ELSE "analyse the following files",
     sections |-> sections(cont, unread, fl),
     tail |-> IF prompt # "" THEN prompt ELSE "analyse the files above"]

(***************************************************************************)
(* clipboard: IsClipboardSupported, CopyToClipboard, WriteToOutput         *)
(***************************************************************************)

\* exec.LookPath(name) succeeds
LookPath(e, name) == name \in e.path

IsClipboardSupported(e) ==
    IF e.goos = "windows" THEN LookPath(e, "clip")
    ELSE IF e.goos = "darwin" THEN LookPath(e, "pbcopy")
    ELSE IF e.goos = "linux" THEN LookPath(e, "xclip") \/ LookPath(e, "xsel")
    ELSE FALSE

\* cmd.Run of the utility name with the text on its standard input
runUtility(e, name, input) ==
    IF ~LookPath(e, name) \/ e.runFails
    THEN [err |-> "failed to copy to clipboard", given |-> {}]
    ELSE [err |-> "", given |-> {[cmd |-> name, stdin |-> input]}]

\* the text as the GBK encoder returns it, or as it is when the encoder fails
gbkText(e, text) ==
    IF e.gbkFails THEN [text |-> text, encoding |-> "UTF-8"]
    ELSE [text |-> text, encoding |-> "GBK"]

CopyToClipboard(e, text) ==
    IF e.goos = "windows" THEN runUtility(e, "clip", gbkText(e, text))
    ELSE IF e.goos = "darwin"
         THEN runUtility(e, "pbcopy", [text |-> text, encoding |-> "UTF-8"])
    ELSE IF e.goos = "linux"
         THEN IF LookPath(e, "xclip")
              THEN runUtility(e, "xclip", [text |-> text, encoding |-> "UTF-8"])
              ELSE IF LookPath(e, "xsel")
              THEN runUtility(e, "xsel", [text |-> text, encoding |-> "UTF-8"])
              ELSE [err |-> "no clipboard utility found", given |-> {}]
    ELSE [err |-> "unsupported operating system", given |-> {}]

\* writeToFile: os.Create, file.WriteString
writeToFile(e, text, filename) ==
    IF e.createFails
    THEN [err |-> "failed to create output file", clipboard |-> {}, written |-> {}]
    ELSE IF e.writeFails
         THEN [err |-> "failed to write to output file", clipboard |-> {},
               written |-> {[name |-> filename, text |-> <<>>]}]
    ELSE [err |-> "", clipboard |-> {},
          written |-> {[name |-> filename, text |-> text]}]

\* the error of CopyToClipboard is returned
afterCopyNoFallback(e, text, c) ==
    [err |-> c.err, clipboard |-> c.given, written |-> {}]

\* WriteToOutput after CopyToClipboard: prompt.txt is written when it failed
afterCopy(e, text, c) ==
    IF c.err # "" THEN writeToFile(e, text, "prompt.txt")
    ELSE [err |-> "", clipboard |-> c.given, written |-> {}]

\* WriteToOutput
WriteToOutput(e, text, output) ==
    IF output = ""
    THEN IF IsClipboardSupported(e) THEN afterCopy(e, text, CopyToClipboard(e, text))
         ELSE writeToFile(e, text, "prompt.txt")
    ELSE writeToFile(e, text, output)

(***************************************************************************)
(* Inputs                                                                  *)
(***************************************************************************)

\* longest list of include patterns of a selection
MaxIncludes == 2

\* longest list of exclude patterns of a call of isExcluded
MaxExcludes == 2


\* the tree of the scenarios: a.go, b.txt and sub/c.go
ScenarioTree ==
    { Entry("a.go", "file", 100), Entry("b.txt", "file", 50),
      Entry("sub", "dir", 0), Entry("sub/c.go", "file", 4000000) }

\* a source tree with a vendor directory, a file of 1000 bytes, a file above
\* the default size limit, a dangling link, a named pipe, a link to a
\* directory and a directory that cannot be read
SourceTree ==
    { Entry("src", "dir", 0), Entry("src/a", "dir", 0), Entry("src/a/b", "dir", 0),
      Entry("src/a/b/x.go", "file", 10), Entry("src/y.go", "file", 1000),
      Entry("vendor", "dir", 0), Entry("vendor/x.go", "file", 20),
      Entry("big.go", "file", 2000000), Entry("m.txt", "file", 30),
      Entry("lnk", "link_broken", 0), Entry("pipe", "fifo", 0),
      Entry("dlink", "link_dir", 0), Entry("locked", "dir_noread", 0) }

Trees == {ScenarioTree, SourceTree}

\* include patterns: simple, recursive, with a missing walk root, malformed,
\* and recursive with a malformed suffix
IncludePool ==
    { Str("*"), Str("**/*.go"), Str("src/**/*.go"), Str("nodir/**"),
      Str("["), Str("**/[") }

\* the exclude lists of a selection
ExcludeLists ==
    { <<>>, <<Str("*.txt")>>, <<Str("vendor/**")>>,
      <<Str("vendor/**"), Str("*.txt")>> }

\* the recursive patterns expandRecursiveGlob is called with
RecursivePool ==
    { Str("**/*.go"), Str("src/**/*.go"), Str("src/**/a/b/*.go"), Str("vendor/**"),
      Str("nodir/**"), Str("**/["), Str("**"), Str("src/**"), Str("**/*"),
      Str("src/a/**/x.go"), Str("big.go/**"), Str("locked/**"), Str("**/*.txt"),
      Str("/**/*.go"), Str("sub/**/c.go"), Str("**/sub/*.go"), Str("src/**/y.*") }

\* the exclude patterns isExcluded is called with
ExcludePool ==
    { Str("vendor/**"), Str("**/*.go"), Str("**"), Str("src/**/x*"), Str("**/["),
      Str("vendor/*"), Str("*.go"), Str("/w/*.go"), Str("["), Str("*_test.go") }

\* the paths isExcluded is called with
CandidatePool ==
    { Str("/w/vendor/x.go"), Str("/foo/abcvendor/x"), Str("/w/a.go"),
      Str("/w/src/a/b/x.go"), Str("/w/src/x_test.go"), Str("/w/m.txt") }

MaxFileSizes == {-1, 0, 1000, DefaultMaxFileSize}

SeqsUpTo(pool, n) == UNION {[1..k -> pool] : k \in 0..n}

\* the tree of a run of the command: sources in three languages, a text
\* file, a file above the default size limit and a subdirectory
RunTree ==
    { Entry("a.go", "file", 100), Entry("b.js", "file", 10),
      Entry("n.txt", "file", 30), Entry("big.go", "file", 2000000),
      Entry("sub", "dir", 0), Entry("sub/d.ts", "file", 7) }

\* the configuration file in the working directory, as a directory entry
LocalConfigEntry == Entry(".aicodeprep.yaml", "file", 40)

\* the regular files of a run
RunPaths == {Abs(e.path) : e \in {x \in RunTree \cup {LocalConfigEntry} : x.kind = "file"}}

\* what reading the files yields: text everywhere; nothing usable anywhere;
\* text in the .go files only
ContentMaps ==
    { [p \in RunPaths |-> "text"],
      [p \in RunPaths |-> IF p = Str("/w/a.go") THEN "blank"
                          ELSE IF p = Str("/w/b.js") THEN "binary"
                          ELSE IF p = Str("/w/n.txt") THEN ""
                          ELSE "blank"],
      [p \in RunPaths |-> IF HasSuffix(p, Str(".go")) THEN "text" ELSE "blank"] }

\* the path given with -c
CliConfig == Str("/etc/conf.yaml")

ConfigPaths == {CliConfig} \cup {Candidates[i] : i \in 1..Len(Candidates)}

\* configuration documents: every key; no key; some keys
FullDoc ==
    [files |-> <<Str("*.go")>>, exclude |-> <<Str("a.*")>>, prompt |-> "from -c",
     max_file_size |-> 0, output |-> "cfg.txt"]

EmptyDoc == [k \in {} |-> <<>>]

LocalDoc ==
    [files |-> <<Str("*.js")>>, exclude |-> <<Str("n.*")>>, prompt |-> "local",
     max_file_size |-> 50, output |-> "local.txt"]

Missing == [state |-> "missing"]

Yaml(doc) == [state |-> "yaml", doc |-> doc]

\* the states of the file given with -c
CliFiles ==
    { Missing, [state |-> "denied"], [state |-> "unreadable"],
      [state |-> "malformed"], Yaml(FullDoc), Yaml(EmptyDoc) }

\* the configuration files on disk: f at the path of -c, l in the working
\* directory, h in the home directory
Disk(f, l, h) ==
    [p \in ConfigPaths |->
        IF p = CliConfig THEN f
        ELSE IF p = Candidates[1] THEN l
        ELSE IF p = Candidates[4] THEN h
        ELSE Missing]

\* the value of -c with the configuration files on disk
ConfigCases ==
    {[configPath |-> <<>>, disk |-> Disk(Missing, l, h)] :
        l \in {Missing, Yaml(LocalDoc)}, h \in {Missing, Yaml(EmptyDoc)}}
    \cup {[configPath |-> CliConfig, disk |-> Disk(f, Missing, Missing)] : f \in CliFiles}
    \cup {[configPath |-> CliConfig, disk |-> Disk(Yaml(FullDoc), Yaml(LocalDoc), Missing)]}

\* the values of -f, -e, -p, -o and --max-size
FilesFlags ==
    { <<>>, <<Str("*.{go,js,ts}")>>, <<Str("[")>>, <<Str("*.go"), Str("*")>> }

ExcludeFlags == { <<>>, <<Str("*.txt")>> }

PromptFlags == {"", "fix"}

OutputFlags == {"", "out.txt"}

MaxSizeFlags == {-1, 0, 2000}

\* the flags -i and --dry-run: batch mode and a dry run with every
\* configuration, interactive mode without a configuration file
BatchModes == {[interactive_mode |-> FALSE, dryRun |-> d] : d \in BOOLEAN}

ModesOf(c) ==
    IF c.configPath = <<>> /\ \A p \in ConfigPaths : c.disk[p].state = "missing"
    THEN BatchModes \cup {[interactive_mode |-> TRUE, dryRun |-> FALSE]}
    ELSE BatchModes

\* what the user types in interactive mode
TypedPatterns == { <<>>, <<Str("*.go")>> }

TypedExcludes == { <<>>, <<Str("vendor/*")>> }

TypedOutputs == {"", "typed.txt"}

\* the answers to SelectFromList: all, or the numbers typed
ListAnswers ==
    {[all |-> TRUE, numbers |-> <<>>]} \cup
    {[all |-> FALSE, numbers |-> n] : n \in {<<1>>, <<0>>, <<2, 1>>}}

\* the platforms: GOOS with the clipboard utilities on PATH
Platforms ==
    {[goos |-> "linux", path |-> u] : u \in SUBSET {"xclip", "xsel"}}
    \cup {[goos |-> "darwin", path |-> u] : u \in SUBSET {"pbcopy"}}
    \cup {[goos |-> "windows", path |-> u] : u \in SUBSET {"clip"}}
    \cup {[goos |-> "plan9", path |-> {}]}

\* a platform with what fails on it
Envs ==
    {[goos |-> p.goos, path |-> p.path, runFails |-> r, gbkFails |-> g,
      createFails |-> c, writeFails |-> w] :
        p \in Platforms, r \in BOOLEAN, c \in BOOLEAN, w \in BOOLEAN,
        g \in {FALSE}}
    \cup
    {[goos |-> "windows", path |-> {"clip"}, runFails |-> r, gbkFails |-> TRUE,
      createFails |-> FALSE, writeFails |-> FALSE] : r \in BOOLEAN}

\* a formatted prompt
SamplePrompt ==
    [head |-> "fix",
     sections |-> <<[path |-> Str("a.go"), content |-> "text"]>>,
     tail |-> "fix"]

(***************************************************************************)
(* FileSelector.SelectFiles, one step at a time                            *)
(***************************************************************************)

\* selector.New on some file system
Init ==
    /\ fsys \in Trees
    /\ fsPatterns \in SeqsUpTo(IncludePool, MaxIncludes)
    /\ fsExcludes \in ExcludeLists
    /\ fsMaxFileSize \in MaxFileSizes
    /\ patterns = <<>>
    /\ files = <<>>
    /\ processedFiles = {}
    /\ pi = 0
    /\ matches = <<>>
    /\ mi = 0
    /\ err = FALSE
    /\ pc = "start"
    /\ candidate = <<>>
    /\ excluded = FALSE
    /\ RunIdle

inputs == <<fsys, fsPatterns, fsExcludes, fsMaxFileSize, candidate, excluded>>

\* the match the inner loop is at
match == matches[mi + 1]

AtMatch == pc = "range_matches" /\ mi < Len(matches)

\* SelectFiles up to the loop over the patterns
Begin ==
    /\ pc = "start"
    /\ patterns' = DefaultPatterns(fsPatterns)
    /\ files' = <<>>
    /\ processedFiles' = {}
    /\ pi' = 0
    /\ pc' = "range_patterns"
    /\ UNCHANGED <<inputs, matches, mi, err>>
    /\ UNCHANGED runVars

Expanded(r) == ~r.err /\ matches' = r.matches

\* expandGlob succeeds: the inner loop starts
ExpandPattern ==
    /\ pc = "range_patterns" /\ pi < Len(patterns)
    /\ Expanded(expandGlob(fsys, patterns[pi + 1]))
    /\ mi' = 0
    /\ pi' = pi + 1
    /\ pc' = "range_matches"
    /\ UNCHANGED <<inputs, patterns, files, processedFiles, err>>
    /\ UNCHANGED runVars

\* expandGlob fails: return nil and the error
ExpandFails ==
    /\ pc = "range_patterns" /\ pi < Len(patterns)
    /\ expandGlob(fsys, patterns[pi + 1]).err
    /\ files' = <<>>
    /\ err' = TRUE
    /\ pc' = "done"
    /\ UNCHANGED <<inputs, patterns, processedFiles, pi, matches, mi>>
    /\ UNCHANGED runVars

\* the match was seen before
SkipProcessed ==
    /\ AtMatch
    /\ match \in processedFiles
    /\ mi' = mi + 1
    /\ UNCHANGED <<inputs, patterns, files, processedFiles, pi, matches, err, pc>>
    /\ UNCHANGED runVars

\* the match is excluded
SkipExcluded ==
    /\ AtMatch
    /\ match \notin processedFiles
    /\ isExcluded(fsExcludes, match)
    /\ processedFiles' = MarkProcessed(processedFiles, match)
    /\ mi' = mi + 1
    /\ UNCHANGED <<inputs, patterns, files, pi, matches, err, pc>>
    /\ UNCHANGED runVars

\* os.Stat fails
SkipInaccessible ==
    /\ AtMatch
    /\ match \notin processedFiles
    /\ ~isExcluded(fsExcludes, match)
    /\ ~Stat(fsys, match).ok
    /\ processedFiles' = MarkProcessed(processedFiles, match)
    /\ mi' = mi + 1
    /\ UNCHANGED <<inputs, patterns, files, pi, matches, err, pc>>
    /\ UNCHANGED runVars

\* the match is no regular file
SkipNotRegular ==
    /\ AtMatch
    /\ match \notin processedFiles
    /\ ~isExcluded(fsExcludes, match)
    /\ Stat(fsys, match).ok
    /\ ~IsRegular(Stat(fsys, match))
    /\ processedFiles' = MarkProcessed(processedFiles, match)
    /\ mi' = mi + 1
    /\ UNCHANGED <<inputs, patterns, files, pi, matches, err, pc>>
    /\ UNCHANGED runVars

\* the file is larger than maxFileSize
SkipTooLarge ==
    /\ AtMatch
    /\ match \notin processedFiles
    /\ ~isExcluded(fsExcludes, match)
    /\ Stat(fsys, match).ok
    /\ IsRegular(Stat(fsys, match))
    /\ TooLarge(fsMaxFileSize, Stat(fsys, match).size)
    /\ processedFiles' = MarkProcessed(processedFiles, match)
    /\ mi' = mi + 1
    /\ UNCHANGED <<inputs, patterns, files, pi, matches, err, pc>>
    /\ UNCHANGED runVars

\* files = append(files, FileInfo{Path: match, Size: info.Size()})
AppendFile ==
    /\ AtMatch
    /\ match \notin processedFiles
    /\ ~isExcluded(fsExcludes, match)
    /\ Stat(fsys, match).ok
    /\ IsRegular(Stat(fsys, match))
    /\ ~TooLarge(fsMaxFileSize, Stat(fsys, match).size)
    /\ processedFiles' = MarkProcessed(processedFiles, match)
    /\ files' = Append(files, [Path |-> match, Size |-> Stat(fsys, match).size])
    /\ mi' = mi + 1
    /\ UNCHANGED <<inputs, patterns, pi, matches, err, pc>>
    /\ UNCHANGED runVars

\* the inner loop ends
NextPattern ==
    /\ pc = "range_matches" /\ mi = Len(matches)
    /\ pc' = "range_patterns"
    /\ UNCHANGED <<inputs, patterns, files, processedFiles, pi, matches, mi, err>>
    /\ UNCHANGED runVars

\* return files, nil
Return ==
    /\ pc = "range_patterns" /\ pi = Len(patterns)
    /\ err' = FALSE
    /\ pc' = "done"
    /\ UNCHANGED <<inputs, patterns, files, processedFiles, pi, matches, mi>>
    /\ UNCHANGED runVars

Next ==
    \/ Begin
    \/ ExpandPattern
    \/ ExpandFails
    \/ SkipProcessed
    \/ SkipExcluded
    \/ SkipInaccessible
    \/ SkipNotRegular
    \/ SkipTooLarge
    \/ AppendFile
    \/ NextPattern
    \/ Return

Spec == Init /\ [][Next]_vars

(***************************************************************************)
(* expandRecursiveGlob, isExcluded and WriteToOutput, called on their own  *)
(***************************************************************************)

\* a selector and the arguments of one call
CallInit ==
    /\ fsys \in Trees
    /\ fsMaxFileSize = 0
    /\ files = <<>>
    /\ processedFiles = {}
    /\ pi = 0
    /\ matches = <<>>
    /\ mi = 0
    /\ err = FALSE
    /\ excluded = FALSE
    /\ \/ /\ pc = "expandRecursiveGlob"
          /\ fsPatterns \in {<<p>> : p \in RecursivePool}
          /\ patterns = fsPatterns
          /\ fsExcludes = <<>>
          /\ candidate = <<>>
          /\ RunIdle
       \/ /\ pc = "isExcluded"
          /\ fsys = SourceTree
          /\ fsPatterns = <<>>
          /\ patterns = <<>>
          /\ fsExcludes \in SeqsUpTo(ExcludePool, MaxExcludes)
          /\ candidate \in CandidatePool
          /\ RunIdle
       \/ /\ pc = "WriteToOutput"
          /\ fsys = SourceTree
          /\ fsPatterns = <<>>
          /\ patterns = <<>>
          /\ fsExcludes = <<>>
          /\ candidate = <<>>
          /\ env \in Envs
          /\ formattedPrompt = SamplePrompt
          /\ cfg \in {[DefaultConfig EXCEPT !.Output = o] : o \in OutputFlags}
          /\ args = <<>>
          /\ maxSize = 0
          /\ configFiles = <<>>
          /\ selectedFiles = <<>>
          /\ validFiles = <<>>
          /\ contents = <<>>
          /\ unreadable = {}
          /\ clipboard = {}
          /\ written = {}
          /\ exit = <<>>

Returned(r) == matches' = r.matches /\ err' = r.err

\* matches, err := fs.expandRecursiveGlob(pattern)
CallExpandRecursiveGlob ==
    /\ pc = "expandRecursiveGlob"
    /\ Returned(expandRecursiveGlob(fsys, patterns[1]))
    /\ pc' = "expanded"
    /\ UNCHANGED <<inputs, patterns, files, processedFiles, pi, mi>>
    /\ UNCHANGED runVars

\* fs.isExcluded(path)
CallIsExcluded ==
    /\ pc = "isExcluded"
    /\ excluded' = isExcluded(fsExcludes, candidate)
    /\ pc' = "excluded"
    /\ UNCHANGED <<fsys, fsPatterns, fsExcludes, fsMaxFileSize, candidate,
                   patterns, files, processedFiles, pi, matches, mi, err>>
    /\ UNCHANGED runVars

WroteOutput(r) ==
    /\ clipboard' = r.clipboard
    /\ written' = r.written
    /\ exit' = [code |-> IF r.err = "" THEN 0 ELSE 1, msg |-> r.err]

\* clipboard.WriteToOutput(formattedPrompt, cfg.Output, verbose)
CallWriteToOutput ==
    /\ pc = "WriteToOutput"
    /\ WroteOutput(WriteToOutput(env, formattedPrompt, cfg.Output))
    /\ pc' = "written"
    /\ UNCHANGED <<inputs, patterns, files, processedFiles, pi, matches, mi, err>>
    /\ UNCHANGED <<args, maxSize, configFiles, cfg, selectedFiles, validFiles,
                   formattedPrompt, contents, unreadable, env>>

CallNext == CallExpandRecursiveGlob \/ CallIsExcluded \/ CallWriteToOutput

CallSpec == CallInit /\ [][CallNext]_vars

(***************************************************************************)
(* A run of the command: runCommand, runInteractiveMode, runBatchMode,     *)
(* generateOutput                                                          *)
(***************************************************************************)

\* the process starts: the flags are parsed, nothing has been selected
RunInit ==
    /\ \E c \in ConfigCases : \E m \in ModesOf(c) :
          /\ args \in {[files |-> f, excludes |-> e, prompt |-> p, output |-> o,
                        configPath |-> c.configPath, maxSize |-> s,
                        interactive_mode |-> m.interactive_mode,
                        dryRun |-> m.dryRun] :
                          f \in FilesFlags, e \in ExcludeFlags, p \in PromptFlags,
                          o \in OutputFlags, s \in MaxSizeFlags}
          /\ configFiles = c.disk
          /\ fsys = IF c.disk[Candidates[1]].state = "missing" THEN RunTree
                    ELSE RunTree \cup {LocalConfigEntry}
    /\ maxSize = args.maxSize
    /\ contents = <<>>
    /\ cfg = <<>>
    /\ selectedFiles = <<>>
    /\ validFiles = <<>>
    /\ formattedPrompt = <<>>
    /\ unreadable = {}
    /\ env = <<>>
    /\ clipboard = {}
    /\ written = {}
    /\ exit = <<>>
    /\ pc = "runCommand"
    /\ fsPatterns = <<>>
    /\ fsExcludes = <<>>
    /\ fsMaxFileSize = 0
    /\ patterns = <<>>
    /\ files = <<>>
    /\ processedFiles = {}
    /\ pi = 0
    /\ matches = <<>>
    /\ mi = 0
    /\ err = FALSE
    /\ candidate = <<>>
    /\ excluded = FALSE

\* what a run never changes
runInputs == <<args, configFiles, contents, env, fsys, patterns, files,
               processedFiles, pi, matches, mi, err, candidate, excluded>>

\* return the error msg: main prints it and exits with code 1
ExitWith(msg) ==
    /\ exit' = [code |-> 1, msg |-> msg, stderr |-> msg]
    /\ pc' = "exit"

\* return nil, after the message note on the standard error
ExitNil(note) ==
    /\ exit' = [code |-> 0, msg |-> "", stderr |-> note]
    /\ pc' = "exit"

Loaded(r) == r.err = "" /\ cfg' = r.config

\* runCommand: cfg is the default configuration or the one loaded
RunLoadConfig ==
    /\ pc = "runCommand"
    /\ IF args.configPath = <<>> THEN cfg' = DefaultConfig
       ELSE Loaded(LoadConfig(configFiles, args.configPath))
    /\ pc' = "loaded"
    /\ UNCHANGED <<runInputs, maxSize, selectedFiles, validFiles, formattedPrompt,
                   unreadable, clipboard, written, exit, fsPatterns, fsExcludes,
                   fsMaxFileSize>>

\* runCommand: LoadConfig returns an error
RunLoadConfigFails ==
    /\ pc = "runCommand"
    /\ args.configPath # <<>>
    /\ LoadConfig(configFiles, args.configPath).err # ""
    /\ ExitWith("failed to load config")
    /\ UNCHANGED <<runInputs, maxSize, cfg, selectedFiles, validFiles,
                   formattedPrompt, unreadable, clipboard, written, fsPatterns,
                   fsExcludes, fsMaxFileSize>>

Merged(size) ==
    /\ maxSize' = size
    /\ cfg' = Merge(cfg, args.files, args.excludes, args.prompt, args.output, size)

\* runCommand: the default of maxSize, then cfg.Merge
RunMerge ==
    /\ pc = "loaded"
    /\ Merged(IF maxSize = 0 THEN cfg.MaxFileSize ELSE maxSize)
    /\ pc' = "merged"
    /\ UNCHANGED <<runInputs, selectedFiles, validFiles, formattedPrompt,
                   unreadable, clipboard, written, exit, fsPatterns, fsExcludes,
                   fsMaxFileSize>>

\* GetFilePatterns: the lines typed, or the current directory
GetFilePatterns(typed) == IF Len(typed) = 0 THEN <<Str("*")>> ELSE typed

\* runInteractiveMode up to the selection: what is missing is asked for, the
\* exclude patterns typed are appended
RunInteractive ==
    /\ pc = "merged"
    /\ args.interactive_mode
    /\ \E tp \in TypedPatterns, te \in TypedExcludes, to \in TypedOutputs :
          cfg' = [Files |-> IF Len(cfg.Files) = 0 THEN GetFilePatterns(tp)
                            ELSE cfg.Files,
                  Exclude |-> cfg.Exclude \o te,
                  Prompt |-> IF cfg.Prompt = "" THEN "typed" ELSE cfg.Prompt,
                  MaxFileSize |-> cfg.MaxFileSize,
                  Output |-> IF cfg.Output = "" THEN to ELSE cfg.Output]
    /\ pc' = "select"
    /\ UNCHANGED <<runInputs, maxSize, selectedFiles, validFiles, formattedPrompt,
                   unreadable, clipboard, written, exit, fsPatterns, fsExcludes,
                   fsMaxFileSize>>

\* runInteractiveMode: reading the terminal fails
RunInteractiveFails ==
    /\ pc = "merged"
    /\ args.interactive_mode
    /\ ExitWith("failed to read input")
    /\ UNCHANGED <<runInputs, maxSize, cfg, selectedFiles, validFiles,
                   formattedPrompt, unreadable, clipboard, written, fsPatterns,
                   fsExcludes, fsMaxFileSize>>

\* runCommand: batch mode, with the current directory when no files are given
RunBatch ==
    /\ pc = "merged"
    /\ ~args.interactive_mode
    /\ cfg' = IF Len(cfg.Files) = 0 THEN [cfg EXCEPT !.Files = <<Str("*")>>] ELSE cfg
    /\ pc' = "select"
    /\ UNCHANGED <<runInputs, maxSize, selectedFiles, validFiles, formattedPrompt,
                   unreadable, clipboard, written, exit, fsPatterns, fsExcludes,
                   fsMaxFileSize>>

\* selector.New(cfg.Files, cfg.Exclude, cfg.MaxFileSize)
NewSelector ==
    /\ fsPatterns' = cfg.Files
    /\ fsExcludes' = cfg.Exclude
    /\ fsMaxFileSize' = cfg.MaxFileSize

Selected(r) == selectedFiles' = r.files /\ err' = r.err

\* selectedFiles, err := fs.SelectFiles()
RunSelect ==
    /\ pc = "select"
    /\ NewSelector
    /\ Selected(SelectFiles(fsys, cfg.Files, cfg.Exclude, cfg.MaxFileSize))
    /\ pc' = "selected"
    /\ UNCHANGED <<args, configFiles, contents, env, fsys, patterns, files,
                   processedFiles, pi, matches, mi, candidate, excluded,
                   maxSize, cfg, validFiles, formattedPrompt, unreadable,
                   clipboard, written, exit>>

\* SelectFiles has returned an error
RunSelectFails ==
    /\ pc = "selected"
    /\ err
    /\ ExitWith("failed to select files")
    /\ UNCHANGED <<runInputs, maxSize, cfg, selectedFiles, validFiles,
                   formattedPrompt, unreadable, clipboard, written, fsPatterns,
                   fsExcludes, fsMaxFileSize>>

\* runBatchMode: SelectFiles has returned no file
RunNoFilesBatch ==
    /\ pc = "selected"
    /\ ~args.interactive_mode
    /\ ~err /\ Len(selectedFiles) = 0
    /\ ExitWith("no files found matching the patterns")
    /\ UNCHANGED <<runInputs, maxSize, cfg, selectedFiles, validFiles,
                   formattedPrompt, unreadable, clipboard, written, fsPatterns,
                   fsExcludes, fsMaxFileSize>>

\* runInteractiveMode: SelectFiles has returned no file; a message, and nil
RunNoFilesInteractive ==
    /\ pc = "selected"
    /\ args.interactive_mode
    /\ ~err /\ Len(selectedFiles) = 0
    /\ ExitNil("No files found matching the patterns")
    /\ UNCHANGED <<runInputs, maxSize, cfg, selectedFiles, validFiles,
                   formattedPrompt, unreadable, clipboard, written, fsPatterns,
                   fsExcludes, fsMaxFileSize>>

\* SelectFiles has returned files: they are validated, or shown to the user
RunSelected ==
    /\ pc = "selected"
    /\ ~err /\ Len(selectedFiles) > 0
    /\ pc' = IF args.interactive_mode THEN "confirm" ELSE "validate"
    /\ UNCHANGED <<runInputs, maxSize, cfg, selectedFiles, validFiles,
                   formattedPrompt, unreadable, clipboard, written, exit,
                   fsPatterns, fsExcludes, fsMaxFileSize>>

\* the first selected file, or every selected file, can no longer be opened
\* (its permissions are changed)
Chmod ==
    /\ pc \in {"validate", "generate"}
    /\ unreadable = {}
    /\ \/ unreadable' = {selectedFiles[1].Path}
       \/ unreadable' = {selectedFiles[i].Path : i \in 1..Len(selectedFiles)}
    /\ UNCHANGED <<args, configFiles, contents, env, selVars, maxSize, cfg,
                   selectedFiles, validFiles, formattedPrompt, clipboard,
                   written, exit>>

Validated(valid) == Len(valid) > 0 /\ validFiles' = valid

\* runBatchMode: some files are valid and the prompt is to be generated
RunValidate ==
    /\ pc = "validate"
    /\ ~args.dryRun
    /\ Validated(ValidateFiles(fsys, unreadable, selectedFiles))
    /\ pc' = "generate"
    /\ UNCHANGED <<runInputs, maxSize, cfg, selectedFiles, formattedPrompt,
                   unreadable, clipboard, written, exit, fsPatterns, fsExcludes,
                   fsMaxFileSize>>

\* runBatchMode: no file is valid
RunNoValid ==
    /\ pc = "validate"
    /\ Len(ValidateFiles(fsys, unreadable, selectedFiles)) = 0
    /\ ExitWith("no valid files found")
    /\ UNCHANGED <<runInputs, maxSize, cfg, selectedFiles, validFiles,
                   formattedPrompt, unreadable, clipboard, written, fsPatterns,
                   fsExcludes, fsMaxFileSize>>

\* runBatchMode: --dry-run prints the summary of the valid files
RunDryRun ==
    /\ pc = "validate"
    /\ args.dryRun
    /\ Validated(ValidateFiles(fsys, unreadable, selectedFiles))
    /\ ExitNil("")
    /\ UNCHANGED <<runInputs, maxSize, cfg, selectedFiles, formattedPrompt,
                   unreadable, clipboard, written, fsPatterns, fsExcludes,
                   fsMaxFileSize>>

\* SelectFromList: the numbers in range, in the order typed
RECURSIVE pickNumbers(_, _)
pickNumbers(fl, numbers) ==
    IF numbers = <<>> THEN <<>>
    ELSE IF Head(numbers) < 1 \/ Head(numbers) > Len(fl)
         THEN pickNumbers(fl, Tail(numbers))
    ELSE <<fl[Head(numbers)]>> \o pickNumbers(fl, Tail(numbers))

SelectFromList(fl, answer) ==
    IF Len(fl) = 0 \/ answer.all THEN fl ELSE pickNumbers(fl, answer.numbers)

\* runInteractiveMode: the selection is confirmed, finalFiles are picked
RunConfirm ==
    /\ pc = "confirm"
    /\ \E answer \in ListAnswers : validFiles' = SelectFromList(selectedFiles, answer)
    /\ pc' = "generate"
    /\ UNCHANGED <<runInputs, maxSize, cfg, selectedFiles, formattedPrompt,
                   unreadable, clipboard, written, exit, fsPatterns, fsExcludes,
                   fsMaxFileSize>>

\* runInteractiveMode: the selection is not confirmed; a message, and nil
RunCancelled ==
    /\ pc = "confirm"
    /\ ExitNil("Operation cancelled")
    /\ UNCHANGED <<runInputs, maxSize, cfg, selectedFiles, validFiles,
                   formattedPrompt, unreadable, clipboard, written, fsPatterns,
                   fsExcludes, fsMaxFileSize>>

\* runInteractiveMode: ConfirmFileSelection or SelectFromList returns an error
RunConfirmFails ==
    /\ pc = "confirm"
    /\ ExitWith("failed to read input")
    /\ UNCHANGED <<runInputs, maxSize, cfg, selectedFiles, validFiles,
                   formattedPrompt, unreadable, clipboard, written, fsPatterns,
                   fsExcludes, fsMaxFileSize>>

Formatted(cont) ==
    /\ contents' = cont
    /\ formattedPrompt' = Format(cfg.Prompt, validFiles, cont, unreadable)

\* generateOutput: pf.Format(), which reads the files
RunFormat ==
    /\ pc = "generate"
    /\ \E cont \in ContentMaps : Formatted(cont)
    /\ pc' = "write"
    /\ UNCHANGED <<args, configFiles, env, fsys, patterns, files,
                   processedFiles, pi, matches, mi, err, candidate, excluded,
                   maxSize, cfg, selectedFiles, validFiles, unreadable,
                   clipboard, written, exit, fsPatterns, fsExcludes,
                   fsMaxFileSize>>

Wrote(r) ==
    /\ clipboard' = r.clipboard
    /\ written' = r.written
    /\ IF r.err = "" THEN ExitNil("") ELSE ExitWith("failed to write output")

\* generateOutput: clipboard.WriteToOutput on some platform
RunWrite ==
    /\ pc = "write"
    /\ \E e \in Envs : Wrote(WriteToOutput(e, formattedPrompt, cfg.Output))
    /\ UNCHANGED <<runInputs, maxSize, cfg, selectedFiles, validFiles,
                   formattedPrompt, unreadable, fsPatterns, fsExcludes,
                   fsMaxFileSize>>

RunNext ==
    \/ RunLoadConfig
    \/ RunLoadConfigFails
    \/ RunMerge
    \/ RunInteractive
    \/ RunInteractiveFails
    \/ RunBatch
    \/ RunSelect
    \/ RunSelectFails
    \/ RunNoFilesBatch
    \/ RunNoFilesInteractive
    \/ RunSelected
    \/ Chmod
    \/ RunValidate
    \/ RunNoValid
    \/ RunDryRun
    \/ RunConfirm
    \/ RunCancelled
    \/ RunConfirmFails
    \/ RunFormat
    \/ RunWrite

RunSpec == RunInit /\ [][RunNext]_vars

(***************************************************************************)
(* What the claims speak of                                                *)
(***************************************************************************)

Done == pc = "done"

\* the paths returned, in order
FilePaths == [i \in 1..Len(files) |-> files[i].Path]

PathSet == {files[i].Path : i \in 1..Len(files)}

SeqSet(q) == {q[i] : i \in 1..Len(q)}

\* the matches of the k-th pattern
Expansion(k) == expandGlob(fsys, patterns[k]).matches

\* the matches of the first k patterns, one pattern after the other
RECURSIVE MatchesUpTo(_)
MatchesUpTo(k) == IF k = 0 THEN <<>> ELSE MatchesUpTo(k - 1) \o Expansion(k)

AllMatches == MatchesUpTo(Len(patterns))

\* the position of the first occurrence of x in q
FirstPos(q, x) == CHOOSE i \in 1..Len(q) : q[i] = x /\ \A j \in 1..(i - 1) : q[j] # x

\* pattern glob-matches name
GlobMatches(pattern, name) == Matched(Match(pattern, name))

\* a pattern split at its first **: the text before, without a trailing /,
\* and the text after, without a leading /
PrefixOf(pattern) ==
    TrimSuffix(Take(pattern, Index(pattern, DoubleStar) - 1), <<Separator>>)

SuffixOf(pattern) ==
    TrimPrefix(Drop(pattern, Index(pattern, DoubleStar) + 1), <<Separator>>)

IsRecursive(pattern) == Index(pattern, DoubleStar) > 0

\* an exclude pattern with ** matches the path
RecursivelyExcludedBy(pattern, path) ==
    /\ PrefixOf(pattern) = <<>> \/ Index(path, PrefixOf(pattern)) > 0
    /\ SuffixOf(pattern) = <<>> \/ GlobMatches(SuffixOf(pattern), Base(path))

\* an exclude pattern without ** matches the path
SimplyExcludedBy(pattern, path) ==
    GlobMatches(pattern, Base(path)) \/ GlobMatches(pattern, path)

ExcludedBy(pattern, path) ==
    IF IsRecursive(pattern) THEN RecursivelyExcludedBy(pattern, path)
    ELSE SimplyExcludedBy(pattern, path)

\* some exclude pattern of the selector matches the path
MatchesAnExclude(path) ==
    \E i \in 1..Len(fsExcludes) : ExcludedBy(fsExcludes[i], path)

\* the regular files at a path
RegularAt(path) == {e \in fsys : Abs(e.path) = path /\ e.kind = "file"}

\* a candidate that no filter of the selection rejects
Kept(path) ==
    /\ ~MatchesAnExclude(path)
    /\ \E e \in RegularAt(path) : fsMaxFileSize <= 0 \/ e.size <= fsMaxFileSize

\* a glob that is syntactically malformed: a backslash with nothing after it,
\* or a character class that is empty, not closed or has a range without an end
RECURSIVE BadGlob(_)
RECURSIVE BadClass(_, _)

\* the characters one end of a range takes, 0 when it is malformed
EndLen(c) ==
    IF c = <<>> \/ c[1] = "-" \/ c[1] = "]" THEN 0
    ELSE IF c[1] = "\\" THEN (IF Len(c) >= 2 THEN 2 ELSE 0)
    ELSE 1

BadRange(c, n, k) ==
    IF k = 0 \/ Len(c) = k THEN TRUE
    ELSE IF c[k + 1] # "-" THEN BadClass(Drop(c, k), n + 1)
    ELSE IF EndLen(Drop(c, k + 1)) = 0 THEN TRUE
    ELSE IF Len(c) = k + 1 + EndLen(Drop(c, k + 1)) THEN TRUE
    ELSE BadClass(Drop(c, k + 1 + EndLen(Drop(c, k + 1))), n + 1)

BadClass(c, n) ==
    IF c = <<>> THEN TRUE
    ELSE IF c[1] = "]" /\ n > 0 THEN BadGlob(Tail(c))
    ELSE BadRange(c, n, EndLen(c))

BadGlob(p) ==
    IF p = <<>> THEN FALSE
    ELSE IF p[1] = "\\" THEN Len(p) = 1 \/ BadGlob(Drop(p, 2))
    ELSE IF p[1] = "[" THEN
         BadClass(IF Len(p) >= 2 /\ p[2] = "^" THEN Drop(p, 2) ELSE Tail(p), 0)
    ELSE BadGlob(Tail(p))

\* the walk root of an include pattern with **, "." for a pattern without
PrefixOfOrDot(pattern) ==
    IF ~IsRecursive(pattern) \/ PrefixOf(pattern) = <<>> THEN Str(".")
    ELSE PrefixOf(pattern)

\* an include pattern without ** that is malformed
BadSimple(pattern) == ~IsRecursive(pattern) /\ BadGlob(pattern)

\* an include pattern with ** whose suffix is malformed
BadRecursive(pattern) == IsRecursive(pattern) /\ BadGlob(SuffixOf(pattern))

SomeBadSimple == \E k \in 1..Len(patterns) : BadSimple(patterns[k])

\* every candidate of every pattern that no filter rejects was selected
AllKeptSelected ==
    \A k \in 1..Len(patterns) :
        \A p \in SeqSet(Expansion(k)) : Kept(p) => p \in PathSet

(***************************************************************************)
(* Claims                                                                  *)
(***************************************************************************)

AGo == Str("/w/a.go")

SubCGo == Str("/w/sub/c.go")

\* C1: SelectFiles returns each absolute path at most once; a path that two
\* patterns (or two matches) yield appears once, at the position of its first
\* match, and the output follows pattern order and then match order.
C1_Dedup ==
    /\ \A i, j \in 1..Len(files) : i # j => files[i].Path # files[j].Path
    /\ (Done /\ ~err) =>
          /\ PathSet \subseteq SeqSet(AllMatches)
          /\ \A i, j \in 1..Len(files) :
                i < j => FirstPos(AllMatches, files[i].Path)
                           < FirstPos(AllMatches, files[j].Path)
          /\ AllKeptSelected

\* a selection of two patterns that both match a returned path
C1_Witness ==
    /\ Done /\ ~err /\ Len(patterns) = 2
    /\ \E p \in PathSet : p \in SeqSet(Expansion(1)) /\ p \in SeqSet(Expansion(2))

\* C2: a path matched by an include pattern and by any exclude pattern is never
\* in the result, whatever the order of the patterns; select(["*"], ["*.txt"], 0)
\* over a.go, b.txt, sub/c.go returns only a.go.
C2_ExcludeWins ==
    /\ \A i \in 1..Len(files) : ~MatchesAnExclude(files[i].Path)
    /\ (/\ Done
        /\ fsys = ScenarioTree
        /\ fsPatterns = <<Str("*")>>
        /\ fsExcludes = <<Str("*.txt")>>
        /\ fsMaxFileSize = 0)
       => ~err /\ FilePaths = <<AGo>>

\* a selection in which the second of two exclude patterns, and not the
\* first, has removed a regular file that an include pattern matched
C2_Witness ==
    /\ Done /\ ~err /\ Len(fsExcludes) = 2
    /\ \E p \in SeqSet(AllMatches) :
          /\ ExcludedBy(fsExcludes[2], p)
          /\ ~ExcludedBy(fsExcludes[1], p)
          /\ RegularAt(p) # {}
    /\ files # <<>>

\* C3: for maxFileSize = N > 0 no returned entry is larger than N and a file
\* of exactly N bytes is kept; for maxFileSize <= 0 no candidate is dropped
\* because of its size.
C3_SizeFilter ==
    /\ fsMaxFileSize > 0 => \A i \in 1..Len(files) : files[i].Size <= fsMaxFileSize
    /\ (Done /\ ~err) =>
          \A p \in SeqSet(AllMatches) :
             (/\ ~MatchesAnExclude(p)
              /\ \E e \in RegularAt(p) : fsMaxFileSize <= 0 \/ e.size <= fsMaxFileSize)
             => p \in PathSet

\* a file of exactly maxFileSize bytes was returned while a larger one was not
C3_Witness ==
    /\ Done /\ ~err /\ fsMaxFileSize > 0
    /\ \E i \in 1..Len(files) : files[i].Size = fsMaxFileSize
    /\ \E p \in SeqSet(AllMatches) :
          p \notin PathSet /\ \E e \in RegularAt(p) : e.size > fsMaxFileSize

\* C4: every returned entry has an absolute path that could be stat-ed and was
\* a regular file, with Size the stat-ed size; directories, paths that cannot
\* be stat-ed and other non-regular entries are dropped without an error.
C4_RegularFiles ==
    /\ \A i \in 1..Len(files) :
          /\ files[i].Path[1] = Separator
          /\ \E e \in RegularAt(files[i].Path) : e.size = files[i].Size
    /\ (Done /\ ~SomeBadSimple) => ~err

\* a selection that returned files although a directory, a dangling link and a
\* named pipe were among its candidates
C4_Witness ==
    /\ Done /\ ~err /\ files # <<>>
    /\ \E e \in fsys : e.kind = "dir" /\ Abs(e.path) \in processedFiles
    /\ \E e \in fsys : e.kind = "link_broken" /\ Abs(e.path) \in processedFiles
    /\ \E e \in fsys : e.kind = "fifo" /\ Abs(e.path) \in processedFiles

\* C5: SelectFiles returns an error if and only if some include pattern without
\* ** is malformed, and then returns no files; patterns with ** never produce
\* an error: a missing walk root or a malformed suffix yields no matches and
\* the selection continues.
C5_ErrorIffBadSimple ==
    Done =>
       /\ err <=> SomeBadSimple
       /\ err => files = <<>>
       /\ ~err =>
             /\ AllKeptSelected
             /\ \A k \in 1..Len(patterns) :
                   (BadRecursive(patterns[k]) \/ ~Lstat(fsys, PrefixOfOrDot(patterns[k])).ok)
                   => Expansion(k) = <<>>

\* a selection aborted by its second pattern after its first one had matched
\* a file that no filter rejects
C5_Witness ==
    /\ Done /\ err /\ Len(patterns) = 2
    /\ BadSimple(patterns[2])
    /\ \E p \in SeqSet(Expansion(1)) : Kept(p)
\* C6 as claimed: select never aborts the whole run because one include
\* pattern failed to parse; the files matched by the other, well-formed
\* patterns are still selected.
C6_NeverAborts ==
    Done =>
       \A k \in 1..Len(patterns) :
          ~BadGlob(patterns[k]) =>
             \A p \in SeqSet(Expansion(k)) : Kept(p) => p \in PathSet

\* C6 as amended: an include pattern without ** that fails to parse aborts the
\* whole run with an error and no file is selected; only a malformed pattern
\* with ** leaves the run going, and then the files matched by the other
\* patterns are still selected.
C6_AbortsOnBadSimple ==
    Done =>
       /\ SomeBadSimple => err /\ files = <<>>
       /\ (~SomeBadSimple /\ \E k \in 1..Len(patterns) : BadRecursive(patterns[k]))
          => ~err /\ AllKeptSelected

\* a selection with a malformed recursive pattern first that returned the
\* files of its second pattern
C6_Witness ==
    /\ Done /\ ~err /\ Len(patterns) = 2
    /\ BadRecursive(patterns[1])
    /\ files # <<>>

\* the scenario: select(["**/*.go"], [], 1048576) over a.go, b.txt, sub/c.go
Scenario7 ==
    /\ fsys = ScenarioTree
    /\ fsPatterns = <<Str("**/*.go")>>
    /\ fsExcludes = <<>>
    /\ fsMaxFileSize = DefaultMaxFileSize

\* C7 as claimed: the scenario returns exactly [a.go, sub/c.go].
C7_BothGoFiles == (Done /\ Scenario7) => FilePaths = <<AGo, SubCGo>>

\* C7 as amended: the scenario returns exactly [a.go]; b.txt is dropped by
\* suffix mismatch and sub/c.go, a candidate of 4,000,000 bytes, by the cap of
\* 1,048,576 bytes.
C7_OnlyAGo ==
    (Done /\ Scenario7) =>
       /\ ~err
       /\ files = <<[Path |-> AGo, Size |-> 100]>>
       /\ SubCGo \in processedFiles
       /\ Str("/w/b.txt") \notin processedFiles

C7_Witness == Done /\ Scenario7 /\ Len(files) = 1

Expanded8 == pc = "expanded"

\* the entries below the directory root
BelowRoot(root) ==
    IF root = Str(".") THEN fsys
    ELSE {e \in fsys : HasPrefix(e.path, root \o <<Separator>>)}

\* the path of an entry relative to root
RelativeTo(root, path) ==
    IF root = Str(".") THEN path ELSE Drop(path, Len(root) + 1)

\* C8: for a recursive include pattern split at its first ** into prefix and
\* suffix, a non-directory entry under the walk root is a candidate if and only
\* if the suffix is empty, or its path relative to the walk root glob-matches
\* the suffix, or its base name does; src/**/*.go and **/*.go both return
\* src/a/b/x.go, and a file directly in the walk root is returned too.
C8_RecursiveCandidates ==
    Expanded8 =>
       /\ ~err
       /\ \A e \in BelowRoot(PrefixOfOrDot(patterns[1])) :
             e.kind \notin DirKinds =>
                (Abs(e.path) \in SeqSet(matches)
                 <=> \/ SuffixOf(patterns[1]) = <<>>
                     \/ GlobMatches(SuffixOf(patterns[1]),
                                    RelativeTo(PrefixOfOrDot(patterns[1]), e.path))
                     \/ GlobMatches(SuffixOf(patterns[1]), Base(e.path)))
       /\ (fsys = SourceTree /\ patterns[1] \in {Str("src/**/*.go"), Str("**/*.go")})
          => /\ Str("/w/src/a/b/x.go") \in SeqSet(matches)
             /\ Str("/w/src/y.go") \in SeqSet(matches)

\* src/**/*.go was expanded and src/a/b/x.go, which only its base name lets
\* match, is a candidate
C8_Witness ==
    /\ Expanded8 /\ fsys = SourceTree /\ patterns = <<Str("src/**/*.go")>>
    /\ Str("/w/src/a/b/x.go") \in SeqSet(matches)
    /\ ~GlobMatches(Str("*.go"), Str("a/b/x.go"))

Excluded9 == pc = "excluded"

\* C9: a candidate is excluded by an exclude pattern with ** if and only if
\* (prefix is empty or the path contains prefix as a substring) and (suffix is
\* empty or the base name glob-matches suffix); vendor/** excludes every file
\* under a vendor directory and also /foo/abcvendor/x.
C9_RecursiveExclude ==
    (Excluded9 /\ \A i \in 1..Len(fsExcludes) : IsRecursive(fsExcludes[i])) =>
       /\ excluded <=>
            \E i \in 1..Len(fsExcludes) : RecursivelyExcludedBy(fsExcludes[i], candidate)
       /\ (fsExcludes = <<Str("vendor/**")>>
           /\ candidate \in {Str("/w/vendor/x.go"), Str("/foo/abcvendor/x")})
          => excluded

\* vendor/** was tried on /foo/abcvendor/x and excluded it
C9_Witness ==
    /\ Excluded9 /\ fsExcludes = <<Str("vendor/**")>>
    /\ candidate = Str("/foo/abcvendor/x")
    /\ excluded

\* the directory a path is located in
DirOf(path) == Take(path, LastSep(path) - 1)

\* C10: a candidate is excluded by an exclude pattern without ** if and only if
\* its base name or its full path glob-matches the pattern, a malformed pattern
\* never failing the selection; an exclude pattern with a relative directory
\* part such as vendor/* excludes the candidates located in that directory.
C10_SimpleExclude ==
    (Excluded9 /\ \A i \in 1..Len(fsExcludes) : ~IsRecursive(fsExcludes[i])) =>
       /\ excluded <=>
            \E i \in 1..Len(fsExcludes) : SimplyExcludedBy(fsExcludes[i], candidate)
       /\ (fsExcludes = <<Str("vendor/*")>> /\ DirOf(candidate) = Str("/w/vendor"))
          => excluded

\* a path directly in the working directory
TopLevel(path) ==
    /\ HasPrefix(path, Cwd \o <<Separator>>)
    /\ ~Contains(Drop(path, Len(Cwd) + 1), <<Separator>>)

\* C11: SelectFiles with an empty include list returns, without an error,
\* the same files in the same order as SelectFiles with the single include
\* pattern "*", for every exclude list, size limit and file system; the
\* files are entries of the working directory itself
C11_EmptyIncludeIsStar ==
    (Done /\ fsPatterns = <<>>) =>
        /\ ~err
        /\ ~SelectFiles(fsys, <<Str("*")>>, fsExcludes, fsMaxFileSize).err
        /\ files = SelectFiles(fsys, <<Str("*")>>, fsExcludes, fsMaxFileSize).files
        /\ \A i \in 1..Len(files) : TopLevel(files[i].Path)

\* an empty include list with excludes and a size limit selects files of a
\* tree that has files in subdirectories too
C11_Witness ==
    /\ Done
    /\ fsPatterns = <<>>
    /\ fsys = SourceTree
    /\ fsExcludes # <<>>
    /\ fsMaxFileSize = 1000
    /\ Len(files) >= 1

(***************************************************************************)
(* The run of the command: what the claims speak of                        *)
(***************************************************************************)

\* SelectFiles has returned to runBatchMode or runInteractiveMode
AfterSelect == pc = "selected"

\* the run has ended
Exited == pc = "exit"

SelectedPaths == {selectedFiles[i].Path : i \in 1..Len(selectedFiles)}

\* the regular files directly in the working directory whose name ends in
\* one of the suffixes, and that the excludes and the size limit let through
TopLevelWithSuffix(suffixes) ==
    {Abs(e.path) : e \in
        {x \in fsys : /\ x.kind = "file"
                      /\ ~Contains(x.path, <<Separator>>)
                      /\ \E sfx \in suffixes : HasSuffix(x.path, sfx)
                      /\ ~isExcluded(cfg.Exclude, Abs(x.path))
                      /\ ~TooLarge(cfg.MaxFileSize, x.size)}}

BracePattern == Str("*.{go,js,ts}")

\* C12: the include pattern *.{go,js,ts} selects all files in the current
\* directory whose name ends in .go, .js or .ts
C12_BraceAlternatives ==
    (AfterSelect /\ cfg.Files = <<BracePattern>>) =>
        /\ ~err
        /\ SelectedPaths = TopLevelWithSuffix({Str(".go"), Str(".js"), Str(".ts")})

\* runCommand has loaded the configuration and not yet merged the flags
AfterLoad == pc = "loaded"

Exists(path) == configFiles[path].state # "missing"

\* the first configuration file that exists: the path given with -c, then
\* the candidates of getConfigPath in their order; <<>> when there is none
ConfigUsed ==
    IF args.configPath # <<>> /\ Exists(args.configPath) THEN args.configPath
    ELSE getConfigPath(configFiles, <<>>)

\* the settings of a configuration document: its keys over the defaults
SettingsOf(path) == Unmarshal(configFiles[path].doc, DefaultConfig)

\* C13: the configuration a run uses is that of the first file that exists
\* among the path given with -c, ./.aicodeprep.yaml, ./.aicodeprep.yml,
\* $HOME/.config/aicodeprep/config.yaml and $HOME/.aicodeprep.yaml; a run
\* without -c in a directory with .aicodeprep.yaml has the files, exclude,
\* prompt, max_file_size and output of that file
C13_ConfigLookupOrder ==
    (AfterLoad /\ ConfigUsed # <<>> /\ configFiles[ConfigUsed].state = "yaml") =>
        cfg = SettingsOf(ConfigUsed)

\* WriteToOutput has returned
Written14 == pc = "written"

\* the clipboard utilities of a platform
ClipboardUtilities(goos) ==
    IF goos = "linux" THEN {"xclip", "xsel"}
    ELSE IF goos = "darwin" THEN {"pbcopy"}
    ELSE IF goos = "windows" THEN {"clip"}
    ELSE {}

UtilityAvailable == ClipboardUtilities(env.goos) \cap env.path # {}

FileWriteFails == env.createFails \/ env.writeFails

\* the text went to the clipboard and to no file
ClipboardSink ==
    /\ Cardinality(clipboard) = 1
    /\ \A c \in clipboard : c.stdin.text = formattedPrompt
    /\ written = {}

\* the text went to the file name and not to the clipboard
FileSink(name) ==
    /\ written = {[name |-> name, text |-> formattedPrompt]}
    /\ clipboard = {}

\* no file but name was touched, and the clipboard was not used
OnlyFile(name) ==
    /\ clipboard = {}
    /\ \A f \in written : f.name = name

\* C14: WriteToOutput delivers the text to exactly one sink.  With an output
\* path the text is written to that file and the clipboard is never used;
\* without one the text is copied to the clipboard, and when no clipboard
\* utility is available or the copy fails it is written to prompt.txt
\* instead.  An error is returned only when the file write fails
C14_OneSink ==
    Written14 =>
        /\ cfg.Output # "" =>
              /\ OnlyFile(cfg.Output)
              /\ exit.code = 0 => FileSink(cfg.Output)
              /\ exit.code # 0 <=> FileWriteFails
        /\ (cfg.Output = "" /\ UtilityAvailable /\ ~env.runFails) =>
              /\ ClipboardSink
              /\ exit.code = 0
        /\ (cfg.Output = "" /\ (~UtilityAvailable \/ env.runFails)) =>
              /\ OnlyFile("prompt.txt")
              /\ exit.code = 0 => FileSink("prompt.txt")
              /\ exit.code # 0 <=> FileWriteFails
        /\ exit.code = 0 =>
              \/ ClipboardSink
              \/ \E f \in written : FileSink(f.name)

\* on Linux with xsel only the copy fails and prompt.txt is written
C14_Witness ==
    /\ Written14
    /\ cfg.Output = ""
    /\ env.goos = "linux" /\ env.path = {"xsel"} /\ env.runFails
    /\ FileSink("prompt.txt")
    /\ exit.code = 0

\* the run went through the selection and on to the end: the configuration
\* was loaded, the terminal was read, the patterns were well-formed, it was
\* no dry run, the user did not cancel and the output could be written
RanToEnd ==
    /\ Exited
    /\ exit.msg \notin {"failed to load config", "failed to read input",
                        "failed to select files", "failed to write output"}
    /\ ~(args.dryRun /\ exit.code = 0)
    /\ exit.stderr # "Operation cancelled"

\* the clipboard or a file has received a prompt with the text of a file
DeliveredWithFile ==
    /\ exit.code = 0
    /\ clipboard # {} \/ written # {}
    /\ \A c \in clipboard : c.stdin.text = formattedPrompt
    /\ \A f \in written : f.text = formattedPrompt
    /\ Len(formattedPrompt.sections) >= 1

NothingUsableError ==
    /\ exit.code = 1
    /\ exit.msg \in {"no files found matching the patterns", "no valid files found"}
    /\ clipboard = {} /\ written = {}

\* C15: a run either delivers to the clipboard or a file a prompt built
\* from at least one usable file, or ends with the error "no files found
\* matching the patterns" or "no valid files found" and exit code 1; the
\* latter also when every selected file is blank, is not valid UTF-8 or
\* can no longer be read, and when nothing is selected in interactive mode
C15_PromptOrError == RanToEnd => (DeliveredWithFile \/ NothingUsableError)

\* runCommand has returned the error of LoadConfig
LoadFailed == Exited /\ exit.code = 1 /\ exit.msg = "failed to load config"

\* the file given with -c
CliFile == configFiles[args.configPath]

\* C16: with -c, the run fails when the file exists and cannot be opened,
\* read or parsed, and only then; when the file does not exist the run goes
\* on with the default configuration (no files, the excludes vendor/**,
\* node_modules/** and .git/**, a size limit of 1,048,576, the clipboard as
\* output) and the load returns no error
C16_LoadConfig ==
    /\ (pc \notin {"runCommand"} /\ args.configPath # <<>>) =>
          (LoadFailed <=> CliFile.state \in {"denied", "unreadable", "malformed"})
    /\ (AfterLoad /\ args.configPath # <<>> /\ CliFile.state = "missing") =>
          /\ cfg.Files = <<>>
          /\ cfg.Exclude = <<Str("vendor/**"), Str("node_modules/**"), Str(".git/**")>>
          /\ cfg.Prompt = ""
          /\ cfg.MaxFileSize = 1048576
          /\ cfg.Output = ""
    /\ (LoadFailed /\ args.configPath # <<>>) =>
          /\ selectedFiles = <<>>
          /\ clipboard = {} /\ written = {}

\* a run with -c naming a file that does not exist has selected files with
\* the default configuration
C16_Witness ==
    /\ pc = "selected"
    /\ args.configPath # <<>>
    /\ CliFile.state = "missing"
    /\ args.files = <<>> /\ args.excludes = <<>> /\ args.maxSize = 0
    /\ fsMaxFileSize = 1048576
    /\ Len(selectedFiles) >= 2

\* a run with -c naming a file that cannot be parsed has failed
C16_WitnessFatal ==
    /\ LoadFailed
    /\ CliFile.state = "malformed"

\* the run uses no configuration file: -c is not given, or names no file
NoConfigFile == args.configPath = <<>> \/ CliFile.state = "missing"

BigGo == Str("/w/big.go")

\* C17: in a run without a configuration file the maxFileSize the selector
\* is made with is positive: the value of --max-size when that is above 0
\* and 1,048,576 otherwise; with --max-size 0 or negative no file larger
\* than 1,048,576 bytes is selected
C17_MaxSizePositive ==
    (AfterSelect /\ NoConfigFile) =>
        /\ fsMaxFileSize > 0
        /\ fsMaxFileSize = IF args.maxSize > 0 THEN args.maxSize ELSE 1048576
        /\ \A i \in 1..Len(selectedFiles) : selectedFiles[i].Size <= fsMaxFileSize
        /\ args.maxSize <= 0 =>
              \A i \in 1..Len(selectedFiles) : selectedFiles[i].Size <= 1048576

\* --max-size -1 in a directory with a file of 2,000,000 bytes: the smaller
\* files are selected, the large one is not
C17_Witness ==
    /\ AfterSelect
    /\ args.configPath = <<>>
    /\ args.maxSize = -1
    /\ args.files = <<>>
    /\ Stat(fsys, BigGo).size = 2000000
    /\ BigGo \notin SelectedPaths
    /\ AGo \in SelectedPaths

====
